---- MODULE Spec2Model ----
\* Stochastic block model generators of pysbm (sbm/stochastic_block_model.py):
\* the edge generator _generate_sbm_edges, the drivers sbm_adjmat and
\* ssbm_adjmat, and the pure helpers _get_num_pos_edges and
\* _get_edge_from_sample_num.
EXTENDS Integers, Sequences, FiniteSets, TLC

\* ---------------------------------------------------------------- bounds
MaxClusters == 2      \* longest cluster_sizes list given to either entry point
MaxVertices == 2      \* largest sum(cluster_sizes) given to sbm_adjmat directly
MaxSsbmN == 3         \* largest n given to ssbm_adjmat
MaxLiveVertices == 2  \* largest sum(cluster_sizes) in the runs checked for termination
MaxFnSize == 4        \* largest cluster size given to the pure helpers

\* Probabilities are numerators over ProbDen: 0 is 0.0, 1 is 0.5, 2 is 1.0,
\* and -1 (-0.5) and 3 (1.5) lie outside [0,1].
ProbDen == 2
Probs == -1 .. (ProbDen + 1)
ValidProb(p) == 0 <= p /\ p <= ProbDen

VARIABLES
  pc,               \* position of the run: start, for_c1, for_c2, for_i, while, redraw, check, done, error
  entry,            \* which public function was called, with its arguments
  cluster_sizes, prob_mat_q, directed, self_loops,
  adj_shape,        \* number of rows (= columns) of adj_mat
  adj_mat,          \* the cells of adj_mat that hold 1
  first_clusters,   \* values the loop over cluster_1 still has to take
  second_clusters,  \* values the loop over cluster_2 still has to take
  cluster_1, cluster_2, c1_base_index, c2_base_index,
  num_edges, number_pos_edges, edges_added,
  i,                \* number of iterations of "for i in range(num_edges)" started
  u_cidx, v_cidx, u_idx, v_idx,
  visited,          \* the cluster pairs whose Q entry has been read, in order
  u_range, v_range, \* values the loops over u_cidx and v_cidx of sbm/sbm.py still have to take
  call              \* the last call of a pure helper and what it returned

vars == << pc, entry, cluster_sizes, prob_mat_q, directed, self_loops, adj_shape,
           adj_mat, first_clusters, second_clusters, cluster_1, cluster_2,
           c1_base_index, c2_base_index, num_edges, number_pos_edges,
           edges_added, i, u_cidx, v_cidx, u_idx, v_idx, visited, u_range,
           v_range, call >>

genvars == << first_clusters, second_clusters, cluster_1, cluster_2,
              c1_base_index, c2_base_index, num_edges, number_pos_edges,
              edges_added, i, u_cidx, v_cidx, u_idx, v_idx, visited, u_range,
              v_range >>

inputs == << entry, cluster_sizes, prob_mat_q, directed, self_loops, adj_shape >>

None == -1
NoCall == [fn |-> "none", edge_num |-> None, c1_size |-> None, c2_size |-> None,
           same_cluster |-> FALSE, self_loops |-> FALSE, directed |-> FALSE,
           raises |-> FALSE, result |-> << >>]

\* ---------------------------------------------------------------- helpers
RECURSIVE Sum(_)
Sum(s) == IF s = << >> THEN 0 ELSE Head(s) + Sum(Tail(s))

\* range(a, b) as the sequence a, a+1, ..., b-1
Range(a, b) == [x \in 1 .. (IF b > a THEN b - a ELSE 0) |-> a + x - 1]

\* cluster_sizes[c] and prob_mat_q[c1][c2] with Python's 0-based indices
SizeOf(c) == cluster_sizes[c + 1]
ProbOf(c1, c2) == prob_mat_q[c1 + 1][c2 + 1]

\* _get_num_pos_edges without the correction of line 108
get_num_pos_edges_NoSubtract(c1_size, c2_size, same_cluster, sl, dir) ==
  IF ~same_cluster
  THEN c1_size * c2_size
  ELSE LET base == (c1_size * (c1_size - 1)) \div 2
           withLoops == IF sl THEN base + c1_size ELSE base
       IN IF dir THEN withLoops * 2 ELSE withLoops

\* _get_num_pos_edges adding the self-loops whatever self_loops says
get_num_pos_edges_AlwaysLoops(c1_size, c2_size, same_cluster, sl, dir) ==
  IF ~same_cluster
  THEN c1_size * c2_size
  ELSE LET withLoops == (c1_size * (c1_size - 1)) \div 2 + c1_size
           doubled == IF dir THEN withLoops * 2 ELSE withLoops
       IN IF dir /\ sl THEN doubled - c1_size ELSE doubled

\* _get_num_pos_edges: int(x / 2) is x \div 2 for the non-negative even x here
\* (the float quotient is exact for these sizes)
get_num_pos_edges(c1_size, c2_size, same_cluster, sl, dir) ==
  IF ~same_cluster
  THEN c1_size * c2_size
  ELSE LET base == (c1_size * (c1_size - 1)) \div 2
           withLoops == IF sl THEN base + c1_size ELSE base
           doubled == IF dir THEN withLoops * 2 ELSE withLoops
       IN IF dir /\ sl THEN doubled - c1_size ELSE doubled

\* int(a / b) and a % b as Python computes them for a >= 0 and b # 0 (the float
\* quotient is exact for the sizes used here; % takes the sign of the divisor)
PyIntDiv(a, b) == IF b > 0 THEN a \div b ELSE -(a \div (-b))
PyMod(a, b) == IF b > 0 THEN a % b ELSE -((-a) % (-b))

\* math.floor((1 + math.sqrt(1 + 8 * edge_num)) / 2): math.sqrt is correctly
\* rounded, so for these arguments the floor is that of the exact value
ISqrt(x) == CHOOSE r \in 0 .. x : r * r <= x /\ (r + 1) * (r + 1) > x
FloorN(edge_num) == (1 + ISqrt(1 + 8 * edge_num)) \div 2

\* What a call of _get_edge_from_sample_num does: return a pair, or raise
\* ZeroDivisionError
Returns(u, v) == [raises |-> FALSE, result |-> << u, v >>]
ZeroDivisionError == [raises |-> TRUE, result |-> << >>]

\* _get_edge_from_sample_num with "v_cidx > u_cidx" at line 40 and with the
\* "- 1" of line 55 left out
get_edge_from_sample_num_OffByOne(edge_num, c1_size, c2_size, same_cluster, sl, dir) ==
  IF ~same_cluster \/ (dir /\ sl)
  THEN IF c2_size = 0 \/ c1_size = 0
       THEN ZeroDivisionError
       ELSE Returns(PyIntDiv(edge_num, c2_size), PyMod(edge_num, c1_size))
  ELSE IF dir /\ ~sl
       THEN IF c2_size - 1 = 0 \/ c1_size - 1 = 0
            THEN ZeroDivisionError
            ELSE LET u == PyIntDiv(edge_num, c2_size - 1)
                     v == PyMod(edge_num, c1_size - 1)
                 IN Returns(u, IF v > u THEN v + 1 ELSE v)
       ELSE IF sl
            THEN LET n == FloorN(edge_num)
                 IN Returns(n, edge_num - (n * (n - 1)) \div 2)
            ELSE LET u == FloorN(edge_num)
                 IN Returns(u, edge_num - (u * (u - 1)) \div 2)

get_edge_from_sample_num(edge_num, c1_size, c2_size, same_cluster, sl, dir) ==
  IF ~same_cluster \/ (dir /\ sl)
  THEN IF c2_size = 0 \/ c1_size = 0
       THEN ZeroDivisionError
       ELSE Returns(PyIntDiv(edge_num, c2_size), PyMod(edge_num, c1_size))
  ELSE IF dir /\ ~sl
       THEN IF c2_size - 1 = 0 \/ c1_size - 1 = 0
            THEN ZeroDivisionError
            ELSE LET u == PyIntDiv(edge_num, c2_size - 1)
                     v == PyMod(edge_num, c1_size - 1)
                 IN Returns(u, IF v >= u THEN v + 1 ELSE v)
       ELSE IF sl
            THEN LET n == FloorN(edge_num)
                 IN Returns(n - 1, edge_num - (n * (n - 1)) \div 2)
            ELSE LET u == FloorN(edge_num)
                 IN Returns(u, edge_num - (u * (u - 1)) \div 2)

\* a binomial that checks prob only when there is a trial to make
BinomialRaises_OnlyWithTrials(n, prob) == n > 0 /\ ~(0 <= prob /\ prob <= ProbDen)
\* a binomial whose count can exceed the number of trials by one
BinomialDraws_OneMore(n, prob) ==
  IF prob = 0 THEN {0} ELSE IF prob = ProbDen THEN {n} ELSE 0 .. (n + 1)

\* np.random.binomial(n, prob): raises ValueError when prob is outside [0,1],
\* otherwise a count in 0..n, which is 0 for prob 0.0 and n for prob 1.0.
BinomialRaises(n, prob) == ~ValidProb(prob)
BinomialDraws(n, prob) ==
  IF prob = 0 THEN {0} ELSE IF prob = ProbDen THEN {n} ELSE 0 .. n

get_number_of_edges_raises(c1_size, c2_size, prob, same_cluster, sl, dir) ==
  BinomialRaises(get_num_pos_edges(c1_size, c2_size, same_cluster, sl, dir), prob)
get_number_of_edges(c1_size, c2_size, prob, same_cluster, sl, dir) ==
  BinomialDraws(get_num_pos_edges(c1_size, c2_size, same_cluster, sl, dir), prob)

\* ---------------------------------------------------------------- inputs
SeqsUpTo(S, n) == UNION {[1 .. m -> S] : m \in 0 .. n}
ClusterSizeLists ==
  {cs \in SeqsUpTo(0 .. MaxVertices, MaxClusters) : Sum(cs) <= MaxVertices}
\* Probability matrices given to sbm_adjmat directly: every entry 0.5, or every
\* entry 0.5 but one, at any position, which is 1.5 (out of range)
HalfMat(k) == [row \in 1 .. k |-> [col \in 1 .. k |-> 1]]
ProbMats(k) ==
  {HalfMat(k)} \cup
  {[HalfMat(k) EXCEPT ![r][c] = ProbDen + 1] : r \in 1 .. k, c \in 1 .. k}

\* ---------------------------------------------------------------- Init
Init ==
  /\ pc = "start"
  /\ entry = [fn |-> "none", n |-> None, k |-> None, p |-> None, q |-> None]
  /\ cluster_sizes = << >>
  /\ prob_mat_q = << >>
  /\ directed = FALSE
  /\ self_loops = FALSE
  /\ adj_shape = 0
  /\ adj_mat = {}
  /\ first_clusters = << >>
  /\ second_clusters = << >>
  /\ cluster_1 = None
  /\ cluster_2 = None
  /\ c1_base_index = 0
  /\ c2_base_index = 0
  /\ num_edges = 0
  /\ number_pos_edges = 0
  /\ edges_added = {}
  /\ i = 0
  /\ u_cidx = None
  /\ v_cidx = None
  /\ u_idx = None
  /\ v_idx = None
  /\ visited = << >>
  /\ u_range = << >>
  /\ v_range = << >>
  /\ call = NoCall

\* ---------------------------------------------------------------- entry points
\* sbm_adjmat up to the first request for an edge: the matrix is created and
\* the generator starts with c1_base_index = 0.
sbm_adjmat_body(cs, q, dir, sl) ==
  /\ cluster_sizes' = cs
  /\ prob_mat_q' = q
  /\ directed' = dir
  /\ self_loops' = sl
  /\ adj_shape' = Sum(cs)
  /\ adj_mat' = {}
  /\ c1_base_index' = 0
  /\ first_clusters' = Range(0, Len(cs))
  /\ pc' = "for_c1"
  /\ UNCHANGED << second_clusters, cluster_1, cluster_2, c2_base_index, num_edges,
                  number_pos_edges, edges_added, i, u_cidx, v_cidx, u_idx, v_idx,
                  visited, u_range, v_range, call >>

sbm_adjmat(cs, q, dir, sl) ==
  /\ pc = "start"
  /\ entry' = [fn |-> "sbm_adjmat", n |-> None, k |-> None, p |-> None, q |-> None]
  /\ sbm_adjmat_body(cs, q, dir, sl)

\* an ssbm_adjmat that gives the n mod k remaining vertices to the last cluster
ssbm_adjmat_PadLast(n, k, p, q, dir) ==
  /\ pc = "start"
  /\ entry' = [fn |-> "ssbm_adjmat", n |-> n, k |-> k, p |-> p, q |-> q]
  /\ LET cs == [x \in 1 .. k |-> IF x = k THEN (n \div k) + (n % k) ELSE n \div k]
         mat == [row \in 1 .. k |-> [col \in 1 .. k |-> IF col = row THEN p ELSE q]]
     IN sbm_adjmat_body(cs, mat, dir, FALSE)

\* ssbm_adjmat: int(math.floor(n/k)) is n \div k for the positive n, k here
ssbm_adjmat(n, k, p, q, dir) ==
  /\ pc = "start"
  /\ entry' = [fn |-> "ssbm_adjmat", n |-> n, k |-> k, p |-> p, q |-> q]
  /\ LET cs == [x \in 1 .. k |-> n \div k]
         mat == [row \in 1 .. k |-> [col \in 1 .. k |-> IF col = row THEN p ELSE q]]
     IN sbm_adjmat_body(cs, mat, dir, FALSE)

\* ---------------------------------------------------------------- the generator
\* a generator that does not restart c2_base_index in directed mode
SecondBase_NoReset(dir, c1_base) == c1_base
\* lines 157-163: the base index the loop over cluster_2 starts with
SecondBase(dir, c1_base) == IF dir THEN 0 ELSE c1_base

\* a generator that pairs every cluster with every cluster in both modes
SecondClusters_All(dir, c1, k) == Range(0, k)
\* lines 161-165: the clusters the loop over cluster_2 goes through
SecondClusters(dir, c1, k) == IF dir THEN Range(0, k) ELSE Range(c1, k)

\* for cluster_1 in range(len(cluster_sizes)): the loop head and lines 157-165,
\* or the end of the generator and the return of sbm_adjmat.
ForCluster1 ==
  /\ pc = "for_c1"
  /\ IF first_clusters = << >>
     THEN /\ pc' = "done"
          /\ UNCHANGED << first_clusters, second_clusters, cluster_1, c2_base_index >>
     ELSE /\ cluster_1' = Head(first_clusters)
          /\ first_clusters' = Tail(first_clusters)
          /\ c2_base_index' = SecondBase(directed, c1_base_index)
          /\ second_clusters' = SecondClusters(directed, Head(first_clusters),
                                               Len(cluster_sizes))
          /\ pc' = "for_c2"
  /\ UNCHANGED << inputs, u_range, v_range,
                  adj_mat, cluster_2, c1_base_index, num_edges,
                  number_pos_edges, edges_added, i, u_cidx, v_cidx, u_idx, v_idx,
                  visited, call >>

\* for cluster_2 in second_clusters: the loop head and lines 168-183,
\* or the end of the inner loop and line 227.
ForCluster2 ==
  /\ pc = "for_c2"
  /\ IF second_clusters = << >>
     THEN /\ c1_base_index' = c1_base_index + SizeOf(cluster_1)
          /\ pc' = "for_c1"
          /\ UNCHANGED << second_clusters, cluster_2, num_edges, number_pos_edges,
                          edges_added, i, visited >>
     ELSE LET c2 == Head(second_clusters) IN
          /\ cluster_2' = c2
          /\ second_clusters' = Tail(second_clusters)
          /\ visited' = Append(visited, << cluster_1, c2 >>)
          /\ UNCHANGED c1_base_index
          /\ IF get_number_of_edges_raises(SizeOf(cluster_1), SizeOf(c2),
                                           ProbOf(cluster_1, c2), cluster_1 = c2,
                                           self_loops, directed)
             THEN /\ pc' = "error"
                  /\ UNCHANGED << num_edges, number_pos_edges, edges_added, i >>
             ELSE /\ num_edges' \in get_number_of_edges(SizeOf(cluster_1), SizeOf(c2),
                                           ProbOf(cluster_1, c2), cluster_1 = c2,
                                           self_loops, directed)
                  /\ number_pos_edges' = get_num_pos_edges(SizeOf(cluster_1), SizeOf(c2),
                                           cluster_1 = c2, self_loops, directed)
                  /\ edges_added' = {}
                  /\ i' = 0
                  /\ pc' = "for_i"
  /\ UNCHANGED << inputs, u_range, v_range,
                  adj_mat, first_clusters, cluster_1, c2_base_index,
                  u_cidx, v_cidx, u_idx, v_idx, call >>

\* for i in range(num_edges): the loop head, or the end of the loop and line 224.
ForEdge ==
  /\ pc = "for_i"
  /\ IF i < num_edges
     THEN /\ i' = i + 1
          /\ pc' = "while"
          /\ UNCHANGED c2_base_index
     ELSE /\ c2_base_index' = c2_base_index + SizeOf(cluster_2)
          /\ pc' = "for_c2"
          /\ UNCHANGED i
  /\ UNCHANGED << inputs, u_range, v_range,
                  adj_mat, first_clusters, second_clusters, cluster_1,
                  cluster_2, c1_base_index, num_edges, number_pos_edges,
                  edges_added, u_cidx, v_cidx, u_idx, v_idx, visited, call >>

\* a sampler that never draws v_cidx again
NeedsRedraw_Never(c1, c2, sl, u, v) == FALSE

\* lines 190-191: whether v_cidx has to be drawn again
NeedsRedraw(c1, c2, sl, u, v) == c1 = c2 /\ ~sl /\ v = u

\* random.choice(range(size)): the values it can return (none: IndexError)
Choices(size) == 0 .. (size - 1)

\* lines 187-191 when the draws return u and v, and the first test of the
\* redraw loop
DrawPair(u, v) ==
  /\ pc = "while"
  /\ u \in Choices(SizeOf(cluster_1))
  /\ v \in Choices(SizeOf(cluster_2))
  /\ u_cidx' = u
  /\ v_cidx' = v
  /\ pc' = IF NeedsRedraw(cluster_1, cluster_2, self_loops, u, v)
           THEN "redraw" ELSE "check"
  /\ UNCHANGED << inputs, u_range, v_range,
                  adj_mat, first_clusters, second_clusters, cluster_1,
                  cluster_2, c1_base_index, c2_base_index, num_edges,
                  number_pos_edges, edges_added, i, u_idx, v_idx, visited, call >>

\* lines 187-188 when either range is empty: random.choice raises IndexError
DrawRaises ==
  /\ pc = "while"
  /\ Choices(SizeOf(cluster_1)) = {} \/ Choices(SizeOf(cluster_2)) = {}
  /\ pc' = "error"
  /\ UNCHANGED << inputs, adj_mat, genvars, call >>

Draw ==
  /\ pc = "while"
  /\ IF Choices(SizeOf(cluster_1)) = {} \/ Choices(SizeOf(cluster_2)) = {}
     THEN DrawRaises
     ELSE \E u \in Choices(SizeOf(cluster_1)), v \in Choices(SizeOf(cluster_2)) :
            DrawPair(u, v)

\* line 192 when the draw returns v, and the next test of "while v_cidx == u_cidx"
RedrawTo(v) ==
  /\ pc = "redraw"
  /\ v \in Choices(SizeOf(cluster_2))
  /\ v_cidx' = v
  /\ pc' = IF v = u_cidx THEN "redraw" ELSE "check"
  /\ UNCHANGED << inputs, u_range, v_range,
                  adj_mat, first_clusters, second_clusters, cluster_1,
                  cluster_2, c1_base_index, c2_base_index, num_edges,
                  number_pos_edges, edges_added, i, u_cidx, u_idx, v_idx,
                  visited, call >>

RedrawV ==
  /\ pc = "redraw"
  /\ \E v \in Choices(SizeOf(cluster_2)) : RedrawTo(v)

\* line 194 when the pair has been seen: back to the top of "while True"
Reject ==
  /\ pc = "check"
  /\ << u_cidx, v_cidx >> \in edges_added
  /\ pc' = "while"
  /\ UNCHANGED << inputs, u_range, v_range,
                  adj_mat, first_clusters, second_clusters, cluster_1,
                  cluster_2, c1_base_index, c2_base_index, num_edges,
                  number_pos_edges, edges_added, i, u_cidx, v_cidx, u_idx, v_idx,
                  visited, call >>

\* The cells sbm_adjmat writes for the edge (u, v); a write outside the matrix
\* raises IndexError.
WriteRaises(u, v) == u >= adj_shape \/ v >= adj_shape
WriteEdge_NoMirror(u, v) == {<< u, v >>}
WriteEdge(u, v) == IF directed THEN {<< u, v >>} ELSE {<< u, v >>, << v, u >>}

\* lines 194-203 when the pair is new, and the body of the loop of sbm_adjmat
\* (lines 256-261) that consumes the yielded edge.
Emit ==
  /\ pc = "check"
  /\ << u_cidx, v_cidx >> \notin edges_added
  /\ edges_added' = edges_added \cup {<< u_cidx, v_cidx >>}
  /\ u_idx' = c1_base_index + u_cidx
  /\ v_idx' = c2_base_index + v_cidx
  /\ IF WriteRaises(u_idx', v_idx')
     THEN pc' = "error" /\ UNCHANGED adj_mat
     ELSE pc' = "for_i" /\ adj_mat' = adj_mat \cup WriteEdge(u_idx', v_idx')
  /\ UNCHANGED << inputs, u_range, v_range,
                  first_clusters, second_clusters, cluster_1, cluster_2,
                  c1_base_index, c2_base_index, num_edges, number_pos_edges, i,
                  u_cidx, v_cidx, visited, call >>

\* A caller's call of either public function
CallSbmAdjmat ==
  /\ pc = "start"
  /\ \E cs \in ClusterSizeLists : \E q \in ProbMats(Len(cs)) :
       \E dir \in BOOLEAN, sl \in BOOLEAN : sbm_adjmat(cs, q, dir, sl)

CallSsbmAdjmat ==
  /\ pc = "start"
  /\ \E n \in 1 .. MaxSsbmN, k \in 1 .. MaxClusters, p \in Probs, q \in Probs,
        dir \in BOOLEAN : ssbm_adjmat(n, k, p, q, dir)

\* ---------------------------------------------------------------- the pure helpers
\* Each behaviour of SpecFn is one call of one helper on one argument list.
\* A call of _get_num_pos_edges; with same_cluster both sizes are that cluster's
CallGetNumPosEdges ==
  /\ pc = "start"
  /\ call = NoCall
  /\ \E c1 \in 0 .. MaxFnSize, c2 \in 0 .. MaxFnSize, same \in BOOLEAN,
        sl \in BOOLEAN, dir \in BOOLEAN :
       /\ same => c1 = c2
       /\ call' = [fn |-> "get_num_pos_edges", edge_num |-> None,
                   c1_size |-> c1, c2_size |-> c2, same_cluster |-> same,
                   self_loops |-> sl, directed |-> dir, raises |-> FALSE,
                   result |-> << get_num_pos_edges(c1, c2, same, sl, dir) >>]
  /\ UNCHANGED << pc, inputs, adj_mat, genvars >>

\* A call of _get_edge_from_sample_num
CallGetEdgeFromSampleNum ==
  /\ pc = "start"
  /\ call = NoCall
  /\ \E e \in 0 .. (MaxFnSize * MaxFnSize), c1 \in 0 .. MaxFnSize,
        c2 \in 0 .. MaxFnSize, same \in BOOLEAN, sl \in BOOLEAN, dir \in BOOLEAN :
       /\ same => c1 = c2
       /\ LET r == get_edge_from_sample_num(e, c1, c2, same, sl, dir)
          IN call' = [fn |-> "get_edge_from_sample_num", edge_num |-> e,
                      c1_size |-> c1, c2_size |-> c2, same_cluster |-> same,
                      self_loops |-> sl, directed |-> dir, raises |-> r.raises,
                      result |-> r.result]
  /\ UNCHANGED << pc, inputs, adj_mat, genvars >>

NextFn ==
  \/ CallGetNumPosEdges
  \/ CallGetEdgeFromSampleNum

SpecFn == Init /\ [][NextFn]_vars

Next ==
  \/ CallSbmAdjmat
  \/ CallSsbmAdjmat
  \/ ForCluster1
  \/ ForCluster2
  \/ ForEdge
  \/ Draw
  \/ RedrawV
  \/ Reject
  \/ Emit

Spec == Init /\ [][Next]_vars

\* Fairness of the random source: whenever the pair of draws of lines 187-188
\* is made again and again, each pair of local indices is returned again and
\* again; and the run does not stop while a step is possible.
LocalIndices == 0 .. (MaxLiveVertices - 1)
FairDraws == \A u \in LocalIndices, v \in LocalIndices : SF_vars(DrawPair(u, v))

\* The runs of sbm_adjmat on the cluster-size lists of at most MaxLiveVertices
\* vertices, under that fairness
CallSbmAdjmatLive ==
  /\ pc = "start"
  /\ \E cs \in {l \in ClusterSizeLists : Sum(l) <= MaxLiveVertices} :
       \E q \in ProbMats(Len(cs)) :
         \E dir \in BOOLEAN, sl \in BOOLEAN : sbm_adjmat(cs, q, dir, sl)

LiveNext ==
  \/ CallSbmAdjmatLive
  \/ ForCluster1
  \/ ForCluster2
  \/ ForEdge
  \/ Draw
  \/ RedrawV
  \/ Reject
  \/ Emit

LiveSpec == Init /\ [][LiveNext]_vars /\ WF_vars(LiveNext) /\ FairDraws

\* --------------------------------------------- the naive generator, sbm/sbm.py
\* sbm.sbm.sbm_adjmat up to the first request for an edge (lines 88-91) and the
\* start of its generator (line 30)
naive_sbm_adjmat(cs, q, dir, sl) ==
  /\ pc = "start"
  /\ entry' = [fn |-> "naive_sbm_adjmat", n |-> None, k |-> None, p |-> None,
               q |-> None]
  /\ cluster_sizes' = cs
  /\ prob_mat_q' = q
  /\ directed' = dir
  /\ self_loops' = sl
  /\ adj_shape' = Sum(cs)
  /\ adj_mat' = {}
  /\ c1_base_index' = 0
  /\ first_clusters' = Range(0, Len(cs))
  /\ pc' = "naive_for_c1"
  /\ UNCHANGED << second_clusters, cluster_1, cluster_2, c2_base_index, num_edges,
                  number_pos_edges, edges_added, i, u_cidx, v_cidx, u_idx, v_idx,
                  visited, u_range, v_range, call >>

CallNaiveSbmAdjmat ==
  /\ pc = "start"
  /\ \E cs \in ClusterSizeLists : \E q \in ProbMats(Len(cs)) :
       \E dir \in BOOLEAN, sl \in BOOLEAN : naive_sbm_adjmat(cs, q, dir, sl)

\* line 34: the base index the loop over cluster_2 starts with, in both modes
NaiveSecondBase(dir, c1_base) == c1_base

\* lines 38-41: the clusters the loop over cluster_2 goes through
NaiveSecondClusters(dir, c1, k) == IF dir THEN Range(0, k) ELSE Range(c1, k)

\* line 32: the next cluster_1, or the end of the generator and the return of
\* sbm_adjmat (line 99); lines 34-41
NaiveForCluster1 ==
  /\ pc = "naive_for_c1"
  /\ IF first_clusters = << >>
     THEN /\ pc' = "done"
          /\ UNCHANGED << first_clusters, second_clusters, cluster_1, c2_base_index >>
     ELSE /\ cluster_1' = Head(first_clusters)
          /\ first_clusters' = Tail(first_clusters)
          /\ c2_base_index' = NaiveSecondBase(directed, c1_base_index)
          /\ second_clusters' =
               NaiveSecondClusters(directed, Head(first_clusters), Len(cluster_sizes))
          /\ pc' = "naive_for_c2"
  /\ UNCHANGED << inputs, u_range, v_range, adj_mat, cluster_2, c1_base_index,
                  num_edges, number_pos_edges, edges_added, i, u_cidx, v_cidx,
                  u_idx, v_idx, visited, call >>

\* line 43: the next cluster_2 and the start of the loop over u_cidx, or the end
\* of the loop and line 62
NaiveForCluster2 ==
  /\ pc = "naive_for_c2"
  /\ IF second_clusters = << >>
     THEN /\ c1_base_index' = c1_base_index + SizeOf(cluster_1)
          /\ pc' = "naive_for_c1"
          /\ UNCHANGED << second_clusters, cluster_2, u_range, visited >>
     ELSE /\ cluster_2' = Head(second_clusters)
          /\ second_clusters' = Tail(second_clusters)
          /\ u_range' = Range(0, SizeOf(cluster_1))
          /\ visited' = Append(visited, << cluster_1, Head(second_clusters) >>)
          /\ pc' = "naive_for_u"
          /\ UNCHANGED c1_base_index
  /\ UNCHANGED << inputs, v_range, adj_mat, first_clusters, cluster_1,
                  c2_base_index, num_edges, number_pos_edges, edges_added, i,
                  u_cidx, v_cidx, u_idx, v_idx, call >>

\* line 45: the next u_cidx and the start of the loop over v_cidx, or the end of
\* the loop and line 59
NaiveForU ==
  /\ pc = "naive_for_u"
  /\ IF u_range = << >>
     THEN /\ c2_base_index' = c2_base_index + SizeOf(cluster_2)
          /\ pc' = "naive_for_c2"
          /\ UNCHANGED << u_range, v_range, u_cidx >>
     ELSE /\ u_cidx' = Head(u_range)
          /\ u_range' = Tail(u_range)
          /\ v_range' = Range(0, SizeOf(cluster_2))
          /\ pc' = "naive_for_v"
          /\ UNCHANGED c2_base_index
  /\ UNCHANGED << inputs, adj_mat, first_clusters, second_clusters, cluster_1,
                  cluster_2, c1_base_index, num_edges, number_pos_edges,
                  edges_added, i, v_cidx, u_idx, v_idx, visited, call >>

\* line 46: the next v_cidx, or the end of the loop
NaiveForV ==
  /\ pc = "naive_for_v"
  /\ IF v_range = << >>
     THEN /\ pc' = "naive_for_u"
          /\ UNCHANGED << v_range, v_cidx >>
     ELSE /\ v_cidx' = Head(v_range)
          /\ v_range' = Tail(v_range)
          /\ pc' = "naive_trial"
  /\ UNCHANGED << inputs, u_range, adj_mat, first_clusters, second_clusters,
                  cluster_1, cluster_2, c1_base_index, c2_base_index, num_edges,
                  number_pos_edges, edges_added, i, u_cidx, u_idx, v_idx, visited,
                  call >>

\* line 48: what "random.random() < p" can be, random.random() being in [0, 1)
NaiveHits(p) == IF p <= 0 THEN {FALSE} ELSE IF p >= ProbDen THEN {TRUE} ELSE BOOLEAN

\* line 55: whether the pair is yielded
NaiveYields(u, v, sl) == u # v \/ sl

\* lines 48-56 for one pair of local indices, and the body of the loop of
\* sbm_adjmat (lines 92-96) that consumes a yielded edge
NaiveTrial ==
  /\ pc = "naive_trial"
  /\ \E hit \in NaiveHits(ProbOf(cluster_1, cluster_2)) :
       IF hit
       THEN /\ u_idx' = c1_base_index + u_cidx
            /\ v_idx' = c2_base_index + v_cidx
            /\ IF NaiveYields(u_idx', v_idx', self_loops)
               THEN IF WriteRaises(u_idx', v_idx')
                    THEN pc' = "error" /\ UNCHANGED adj_mat
                    ELSE /\ pc' = "naive_for_v"
                         /\ adj_mat' = adj_mat \cup WriteEdge(u_idx', v_idx')
               ELSE pc' = "naive_for_v" /\ UNCHANGED adj_mat
       ELSE /\ pc' = "naive_for_v"
            /\ UNCHANGED << adj_mat, u_idx, v_idx >>
  /\ UNCHANGED << inputs, u_range, v_range, first_clusters, second_clusters,
                  cluster_1, cluster_2, c1_base_index, c2_base_index, num_edges,
                  number_pos_edges, edges_added, i, u_cidx, v_cidx, visited,
                  call >>

NaiveNext ==
  \/ CallNaiveSbmAdjmat
  \/ NaiveForCluster1
  \/ NaiveForCluster2
  \/ NaiveForU
  \/ NaiveForV
  \/ NaiveTrial

NaiveSpec == Init /\ [][NaiveNext]_vars


\* ---------------------------------------------------------------- properties
\* the run is inside the processing of the cluster pair (cluster_1, cluster_2)
InPair == pc \in {"for_i", "while", "redraw", "check"}
\* index of the first vertex of cluster c: the sizes of the clusters before it
PrefixSum(c) == Sum(SubSeq(cluster_sizes, 1, c))
\* a cluster pair with no possible edge
ZeroPair(c1, c2) ==
  \/ SizeOf(c1) = 0
  \/ SizeOf(c2) = 0
  \/ (c1 = c2 /\ SizeOf(c1) = 1 /\ ~self_loops)
HasInvalidEntry ==
  \E r \in 1 .. Len(prob_mat_q) : \E c \in 1 .. Len(prob_mat_q[r]) :
    ~ValidProb(prob_mat_q[r][c])

\* C1: every finished run of ssbm_adjmat(n, k, 1.0, 0.0), undirected, with k
\* dividing n and n/k >= 2, ends with adj[u][v] = 1 exactly for the distinct
\* u, v of the same cluster.
C1_BlockDiagonal ==
  (/\ pc = "done"
   /\ entry.fn = "ssbm_adjmat"
   /\ entry.p = ProbDen
   /\ entry.q = 0
   /\ ~directed
   /\ entry.n % entry.k = 0
   /\ entry.n \div entry.k >= 2)
  => \A u \in 0 .. (entry.n - 1), v \in 0 .. (entry.n - 1) :
       (<< u, v >> \in adj_mat) <=>
         (u # v /\ u \div (entry.n \div entry.k) = v \div (entry.n \div entry.k))

\* C2: when the sampling loop of a cluster pair ends, it has emitted num_edges
\* pairs that are pairwise distinct as possible edges: in the undirected
\* same-cluster case (i, j) and (j, i) count as one.
AsPossibleEdge(e) ==
  IF ~directed /\ cluster_1 = cluster_2 /\ e[1] < e[2] THEN << e[2], e[1] >> ELSE e
C2_DistinctPossibleEdges ==
  (pc = "for_i" /\ i = num_edges)
  => Cardinality({AsPossibleEdge(e) : e \in edges_added}) = num_edges

\* C3: in undirected mode the adjacency matrix is symmetric after every edge
\* processed and in the final result.
C3_Symmetric ==
  ~directed => \A e \in adj_mat : << e[2], e[1] >> \in adj_mat
C3_Witness ==
  /\ pc = "done"
  /\ ~directed
  /\ \E e \in adj_mat : e[1] # e[2]

\* C4: without self-loops no edge (u, u) is emitted and the diagonal of the
\* adjacency matrix stays zero, directed or not, zero-size clusters included.
C4_NoSelfLoop ==
  ~self_loops =>
    /\ (u_idx # None => u_idx # v_idx)
    /\ \A e \in adj_mat : e[1] # e[2]
C4_Witness ==
  /\ ~self_loops
  /\ pc = "for_i"
  /\ cluster_1 = cluster_2
  /\ u_idx = c1_base_index + u_cidx
  /\ v_idx = c2_base_index + v_cidx
  /\ << u_idx, v_idx >> \in adj_mat
  /\ \E c \in 1 .. Len(cluster_sizes) : cluster_sizes[c] = 0

\* C5: _get_num_pos_edges returns size_a*size_b for different clusters, and for
\* one cluster of size s: s(s-1)/2, s(s-1)/2 + s, s(s-1) or s*s according to
\* (directed, self_loops).
ClosedForm(a, b, same, sl, dir) ==
  IF ~same THEN a * b
  ELSE IF ~dir /\ ~sl THEN (a * (a - 1)) \div 2
  ELSE IF ~dir /\ sl THEN (a * (a - 1)) \div 2 + a
  ELSE IF dir /\ ~sl THEN a * (a - 1)
  ELSE a * a
C5_ClosedForm ==
  call.fn = "get_num_pos_edges" =>
    call.result = << ClosedForm(call.c1_size, call.c2_size, call.same_cluster,
                                call.self_loops, call.directed) >>
C5_Witness ==
  /\ call.fn = "get_num_pos_edges"
  /\ call.same_cluster
  /\ call.directed
  /\ call.self_loops
  /\ call.c1_size = 3
  /\ call.result = << 9 >>

\* C6: for two different clusters of sizes size_a, size_b >= 1 and a rank below
\* size_a*size_b, _get_edge_from_sample_num returns
\* (rank div size_b, rank mod size_b).
C6_DivModSizeB ==
  (/\ call.fn = "get_edge_from_sample_num"
   /\ ~call.same_cluster
   /\ call.c1_size >= 1
   /\ call.c2_size >= 1
   /\ call.edge_num < call.c1_size * call.c2_size)
  => /\ ~call.raises
     /\ call.result = << call.edge_num \div call.c2_size,
                         call.edge_num % call.c2_size >>

\* C7: for one cluster of size s >= 1, the ranks 0 .. possible_edge_count-1
\* map, in order, onto the canonical enumeration of the (self_loops, directed)
\* case, which has no repetition and as many elements as _get_num_pos_edges
\* returns.
AllPairs(s) == [x \in 1 .. s * s |-> << (x - 1) \div s, (x - 1) % s >>]
VirtualList(s, sl, dir) ==
  IF dir /\ sl THEN AllPairs(s)
  ELSE IF dir THEN SelectSeq(AllPairs(s), LAMBDA e : e[1] # e[2])
  ELSE IF sl THEN SelectSeq(AllPairs(s), LAMBDA e : e[2] <= e[1])
  ELSE SelectSeq(AllPairs(s), LAMBDA e : e[2] < e[1])
C7_CanonicalEnumeration ==
  (/\ call.fn = "get_edge_from_sample_num"
   /\ call.same_cluster
   /\ call.c1_size >= 1)
  => LET list == VirtualList(call.c1_size, call.self_loops, call.directed)
     IN /\ Len(list) = get_num_pos_edges(call.c1_size, call.c2_size, TRUE,
                                         call.self_loops, call.directed)
        /\ call.edge_num < Len(list) =>
             /\ ~call.raises
             /\ call.result = list[call.edge_num + 1]
C7_Witness ==
  /\ call.fn = "get_edge_from_sample_num"
  /\ call.same_cluster
  /\ ~call.self_loops
  /\ ~call.directed
  /\ call.c1_size = 4
  /\ call.edge_num = 5
  /\ call.result = << 3, 2 >>

C9_FailsBeforeSampling ==
  (pc # "start" /\ HasInvalidEntry)
  => /\ pc # "done"
     /\ adj_mat = {}
     /\ u_cidx = None
     /\ ~InPair
\* C9 as the code has it: the entry of a pair is checked when the pair's edge
\* count is drawn. The run fails at the first visited pair whose entry is
\* outside [0,1], before sampling any position of that pair; the pairs visited
\* before it had valid entries and keep their edges; a finished run has read
\* only valid entries, which in undirected mode are those of the upper
\* triangle.
ProbOfPair(pair) == ProbOf(pair[1], pair[2])
C9_FailsAtTheInvalidPair ==
  /\ \A x \in 1 .. (Len(visited) - 1) : ValidProb(ProbOfPair(visited[x]))
  /\ (visited # << >> /\ ~ValidProb(ProbOfPair(visited[Len(visited)])))
       <=> pc = "error"
  /\ pc = "done" =>
       \A c1 \in 0 .. (Len(cluster_sizes) - 1), c2 \in 0 .. (Len(cluster_sizes) - 1) :
         (directed \/ c1 <= c2) => ValidProb(ProbOf(c1, c2))
C9_Witness ==
  /\ pc = "error"
  /\ adj_mat # {}
  /\ number_pos_edges > 0
  /\ get_num_pos_edges(SizeOf(cluster_1), SizeOf(cluster_2), cluster_1 = cluster_2,
                       self_loops, directed) = 0

\* C10: for a cluster pair with no possible edge (a zero-size cluster on a
\* side, or a size-1 cluster with itself without self-loops) the count drawn
\* is zero, the sampling loop body is not entered, nothing is emitted and no
\* error is raised (an error comes only from a probability outside [0,1]);
\* the base offsets are those of the pair's clusters.
C10_ZeroPair ==
  /\ (InPair /\ ZeroPair(cluster_1, cluster_2)) =>
       /\ num_edges = 0
       /\ pc = "for_i"
       /\ edges_added = {}
  /\ InPair =>
       /\ c1_base_index = PrefixSum(cluster_1)
       /\ c2_base_index = PrefixSum(cluster_2)
  /\ pc = "error" => ~ValidProb(ProbOf(cluster_1, cluster_2))
C10_Witness ==
  /\ pc = "for_i"
  /\ Len(visited) >= 2
  /\ ZeroPair(visited[1][1], visited[1][2])
  /\ ~ZeroPair(cluster_1, cluster_2)
  /\ u_idx = c1_base_index + u_cidx
  /\ v_idx = c2_base_index + v_cidx
  /\ << u_idx, v_idx >> \in adj_mat
  /\ c2_base_index > 0

InRangeOf(idx, c) == PrefixSum(c) <= idx /\ idx < PrefixSum(c) + SizeOf(c)
C12_BaseIndices ==
  /\ pc = "for_c2" => c1_base_index = PrefixSum(cluster_1)
  /\ InPair =>
       /\ c1_base_index = PrefixSum(cluster_1)
       /\ c2_base_index = PrefixSum(cluster_2)
  /\ (pc = "for_i" /\ i >= 1) =>
       /\ InRangeOf(u_idx, cluster_1)
       /\ InRangeOf(v_idx, cluster_2)
       /\ u_idx < Sum(cluster_sizes)
       /\ v_idx < Sum(cluster_sizes)
  /\ pc = "error" => ~ValidProb(ProbOf(cluster_1, cluster_2))
C12_Witness ==
  /\ directed
  /\ pc = "for_i"
  /\ i >= 1
  /\ cluster_1 = 1
  /\ cluster_2 = 0
  /\ c1_base_index = 1
  /\ c2_base_index = 0
  /\ u_idx = 1
  /\ v_idx = 0

\* the cluster a vertex index belongs to, searched from cluster c on
RECURSIVE ClusterOfVertex(_, _)
ClusterOfVertex(x, c) ==
  IF x < PrefixSum(c) + SizeOf(c) THEN c ELSE ClusterOfVertex(x, c + 1)

\* C13: in the naive generator of sbm/sbm.py, for every cluster pair visited,
\* directed or not, the edges emitted have u in the index range of cluster_1
\* and v in that of cluster_2 (the offsets are the sums of the sizes of the
\* clusters before them), and both are below n, so that no write into adj_mat
\* is out of bounds.
NaiveInPair == pc \in {"naive_for_u", "naive_for_v", "naive_trial"}
C13_NaiveInRange ==
  /\ NaiveInPair =>
       /\ c1_base_index = PrefixSum(cluster_1)
       /\ c2_base_index = PrefixSum(cluster_2)
  /\ pc # "error"
  /\ \A e \in adj_mat :
       \E x \in 1 .. Len(visited) :
         LET block == << ClusterOfVertex(e[1], 0), ClusterOfVertex(e[2], 0) >>
         IN \/ visited[x] = block
            \/ ~directed /\ visited[x] = << block[2], block[1] >>

\* C14: a run visits the cluster pairs in row-major order, each once: the
\* pairs (i, j) with i <= j in undirected mode, so that Q[i][j] with i > j is
\* never read, and all k*k ordered pairs, i = j included, in directed mode,
\* where an edge of pair (i, j) is written only into block (i, j) of the
\* matrix (no mirroring).
PairsInOrder(k, dir) ==
  SelectSeq(AllPairs(k), LAMBDA e : dir \/ e[1] <= e[2])
C14_PairsOnceInOrder ==
  pc # "start" =>
    LET all == PairsInOrder(Len(cluster_sizes), directed) IN
    /\ Len(visited) <= Len(all)
    /\ visited = SubSeq(all, 1, Len(visited))
    /\ pc = "done" => visited = all
    /\ InPair => visited[Len(visited)] = << cluster_1, cluster_2 >>
    /\ directed =>
         \A e \in adj_mat :
           \E x \in 1 .. Len(visited) :
             visited[x] = << ClusterOfVertex(e[1], 0), ClusterOfVertex(e[2], 0) >>
C14_Witness ==
  /\ pc = "done"
  /\ directed
  /\ Len(cluster_sizes) = 2
  /\ visited = << << 0, 0 >>, << 0, 1 >>, << 1, 0 >>, << 1, 1 >> >>
  /\ << 1, 0 >> \in adj_mat
  /\ << 0, 1 >> \notin adj_mat

====
